---- MODULE Spec2Model ----
(***************************************************************************)
(* Verification model of the synthetic telemetry generators of             *)
(* syncora-analytics-bot.                                                  *)
(*                                                                         *)
(* Each script of the repository is a sequential program; the model gives  *)
(* one specification per script:                                           *)
(*   Spec        generateUsers (sign-up / daily-active / MAU generator)    *)
(*   SamplerSpec the STEP 1 loop of generateUsers seen through the region  *)
(*               quotas and the geo cache only                             *)
(*   FairSampler SamplerSpec with the fairness of a running process        *)
(*   DataSpec    generateDataEventsForMonth (data generator and its        *)
(*               volume reconciler), in the variants part_003 and part_002 *)
(*   PeriodSpec  DataSpec with the secondary events that fall in the month *)
(*               after their data event, for one user                      *)
(*   UserSpec    generateUsersForMonth of user.ts over MONTHLY_PLAN        *)
(*   TicketSpec  the ticket generator of ticket.ts                         *)
(*   SendSpec    the uploaders: generate_new.ts with its key check, and    *)
(*               uploadInChunks of user.ts and part_003                    *)
(*   ChunkSpec   chunkArray on an array and a chunk size of any content    *)
(*   EventsSpec  generateAllUserEvents of user.ts: the users and the       *)
(*               logins of every month, and the closing sort               *)
(*   CountrySpec EventsSpec over every country distribution of a month     *)
(*                                                                         *)
(* Time is an integer clock.  The scripts work in milliseconds; the model  *)
(* clock ticks every 4 hours, the largest unit in which the 8 h, 12 h and  *)
(* 24 h offsets of the code are whole numbers.                             *)
(***************************************************************************)
EXTENDS Integers, Sequences, FiniteSets, TLC

VARIABLES
    \* ---- generateUsers (sign-up / active generator) ----
    PLAN,            \* the plan table: sequence of [signups, mau, dau]
    tz,              \* UTC offset of the host, in ticks (east positive)
    pc,              \* position in generateUsers
    m,               \* index of the current PLAN entry (1-based)
    i,               \* STEP 1 loop counter
    d,               \* STEP 2 loop counter (day of month)
    quota,           \* remaining region quotas [IN, US, EU]
    geoUsage,        \* rounded (lat, lon) pair -> times returned
    cur,             \* locals of the running STEP 1 iteration
    allUsers,        \* sequence of users; a user's id is its index
    monthlyActives,  \* ids marked active in the current month
    dataFinal,       \* events pushed so far, as [event, distinct_id]
    pushed,          \* the events the last step pushed, in full
    \* ---- generateDataEventsForMonth (data generator) ----
    script,          \* the variant of the data generator that runs
    dpc,             \* position in the data generator
    dm,              \* index of the month being generated (1-based)
    monthData,       \* the MONTHS_PLAN entry of that month
    allEvents,       \* every event generated so far
    eventsGenerated, \* data_generated events of this month
    totalFileSizeGenerated,
    targetIdeal,
    extraFileSizePerEvent,
    next,            \* Phase 2 loop: position in monthEvents
    \* ---- generateUsersForMonth of user.ts (signup generator) ----
    upc,             \* position in generateAllUserEvents
    umonth,          \* index of the MONTHLY_PLAN entry (1-based)
    targetSignups,   \* sum of the country distribution of that entry
    uloop,           \* loop counter of the user loop
    signedUp,        \* month index -> "user-signed-up" events pushed
    \* ---- ticket.ts (ticket generator) ----
    tpc,             \* position in the script
    targets,         \* the targets table: [ticketsRaised, ticketsResolved]
    tmonth,          \* index of the targets entry (1-based)
    ticketEvents,    \* events: [event, ticketId, timestamp]
    raisedTickets,   \* [id, timestamp] of every ticket raised
    ticketCounter,
    traised,         \* loop counter of the raise loop
    ticketsToResolve,
    tnext,           \* resolve loop: position in ticketsToResolve
    \* ---- the uploaders (generate_new.ts, user.ts, part_003) ----
    sender,          \* the script that uploads
    API_KEY,         \* process.env.POSTHOG_API_KEY: [defined, value]
    spc,             \* position in the script
    dataset,         \* the events to upload (read or generated)
    chunks,          \* chunkArray(events, CHUNK_SIZE)
    bi,              \* loop counter of uploadInChunks (0-based, as in the code)
    inFlight,        \* indexes (1-based) of the batches posted and not answered
    submitted,       \* every axios.post made, in order: the batch index
    succeeded,       \* indexes of the batches whose post resolved
    failed,          \* indexes of the batches whose post rejected
    exitCode,        \* -1 while running, else the code given to process.exit
    announced,       \* the success message has been logged
    \* ---- generateAllUserEvents of user.ts, on a small plan ----
    uePlan,          \* the plan: sequence of [countryDistribution, logins]
    uePc,            \* position in generateAllUserEvents
    ueMonth,         \* index of the plan entry (1-based)
    ueCountries,     \* countryArray of generateUsersForMonth, shuffled
    ueLoop,          \* loop counter of the user loop and of the login loop
    ueUsers,         \* allUsers: [signUpDate, signUpMonth, country]
    ueLogins,        \* loginEvents of generateLoginEventsForMonth
    ueEvents,        \* allEvents: [event, userId, timestamp]
    \* ---- chunkArray ----
    cpc,             \* "call" before the call, "returned" after it
    carray,          \* the array passed
    csize,           \* the chunkSize passed
    cchunks          \* the chunks returned

genVars == <<PLAN, tz, pc, m, i, d, quota, geoUsage, cur, allUsers,
             monthlyActives, dataFinal, pushed>>

dataVars == <<script, dpc, dm, monthData, allEvents, eventsGenerated,
              totalFileSizeGenerated, targetIdeal, extraFileSizePerEvent, next>>

userVars == <<upc, umonth, targetSignups, uloop, signedUp>>

ticketVars == <<tpc, targets, tmonth, ticketEvents, raisedTickets, ticketCounter,
                traised, ticketsToResolve, tnext>>

sendVars == <<sender, API_KEY, spc, dataset, chunks, bi, inFlight, submitted,
              succeeded, failed, exitCode, announced>>

eventVars == <<uePlan, uePc, ueMonth, ueCountries, ueLoop, ueUsers, ueLogins,
               ueEvents>>

chunkVars == <<cpc, carray, csize, cchunks>>

moreVars == <<eventVars, chunkVars>>

\* the scripts added to the model after the three generators
restVars == <<ticketVars, sendVars, moreVars>>

vars == <<genVars, dataVars, userVars, restVars>>

\* each script runs in a process of its own: while one runs, the state of
\* the others stays as it is
IdleGen ==
    /\ PLAN = <<>> /\ tz = 0 /\ pc = "idle" /\ m = 0 /\ i = 0 /\ d = 0
    /\ quota = [IN |-> 0, US |-> 0, EU |-> 0]
    /\ geoUsage = <<>> /\ cur = <<>> /\ allUsers = <<>>
    /\ monthlyActives = {} /\ dataFinal = <<>> /\ pushed = <<>>

IdleData ==
    /\ script = "none" /\ dpc = "idle" /\ dm = 0 /\ monthData = <<>>
    /\ allEvents = <<>> /\ eventsGenerated = 0
    /\ totalFileSizeGenerated = <<0, 1>> /\ targetIdeal = <<0, 1>>
    /\ extraFileSizePerEvent = <<0, 1>> /\ next = 0

IdleUser ==
    /\ upc = "idle" /\ umonth = 0 /\ targetSignups = 0 /\ uloop = 0
    /\ signedUp = <<>>

IdleTicket ==
    /\ tpc = "idle" /\ targets = <<>> /\ tmonth = 0 /\ ticketEvents = <<>>
    /\ raisedTickets = <<>> /\ ticketCounter = 0 /\ traised = 0
    /\ ticketsToResolve = <<>> /\ tnext = 0

IdleSend ==
    /\ sender = "none" /\ API_KEY = [defined |-> FALSE, value |-> <<>>]
    /\ spc = "idle" /\ dataset = <<>> /\ chunks = <<>> /\ bi = 0
    /\ inFlight = {} /\ submitted = <<>> /\ succeeded = {} /\ failed = {}
    /\ exitCode = -1 /\ announced = FALSE

IdleEvents ==
    /\ uePlan = <<>> /\ uePc = "idle" /\ ueMonth = 0 /\ ueCountries = <<>>
    /\ ueLoop = 0 /\ ueUsers = <<>> /\ ueLogins = <<>> /\ ueEvents = <<>>

IdleChunk == cpc = "idle" /\ carray = <<>> /\ csize = 0 /\ cchunks = <<>>

IdleMore == IdleEvents /\ IdleChunk

IdleRest == IdleTicket /\ IdleSend /\ IdleMore

(***************************************************************************)
(* Bounds of the model.                                                    *)
(***************************************************************************)
MaxPeriods == 2      \* PLAN entries
MaxUsers == 2        \* TOTAL of a PLAN in Spec
MaxTotal == 7        \* TOTAL of a PLAN in SamplerSpec
MaxTarget == 2       \* mau and dau of a PLAN entry
DaysInMonth == 2     \* calendar days of every month of the model
MaxJitter == 0       \* rounded jitter steps per coordinate: 0 .. MaxJitter

(***************************************************************************)
(* The clock.                                                              *)
(***************************************************************************)
Hours(h) == h \div 4
TicksPerDay == Hours(24)
MonthTicks == DaysInMonth * TicksPerDay
TzOffsets == {0 - Hours(4), 0, Hours(4)}

Min(a, b) == IF a <= b THEN a ELSE b

\* Date.UTC(y, mo - 1, 1, 8) and Date.UTC(y, mo, 0, 23, 59, 59, 999).  The
\* end is one millisecond short of the tick mo * MonthTicks and is read as
\* that tick: every instant before it falls on an earlier tick, every
\* instant of the next month on a later one.
monthRange(mo) ==
    [start |-> (mo - 1) * MonthTicks + Hours(8),
     end   |-> mo * MonthTicks]

\* new Date(start + Math.random() * (end - start)): Math.random() < 1 and the
\* Date constructor drops the fraction, so the result is below end unless
\* the range is empty.
randDatePastEnd(start, end) == start .. (end + 1)

randDate(start, end) ==
    IF end > start THEN start .. (end - 1) ELSE {start}

\* Date.UTC(y, mo, dd): midnight UTC of day dd of month mo
dayStart(mo, dd) == (mo - 1) * MonthTicks + (dd - 1) * TicksPerDay

\* new Date(y, mo + 1, 0).getUTCDate(): the last day of the month at LOCAL
\* midnight, read back as a UTC calendar day.
daysInMonthOf(mo, offset) ==
    LET localMidnight == (DaysInMonth - 1) * TicksPerDay - offset
    IN  (localMidnight \div TicksPerDay) + 1

(***************************************************************************)
(* Plan table and region quotas.                                           *)
(***************************************************************************)
Regions == {"IN", "US", "EU"}

PeriodSpecs(maxSignups) ==
    [signups : 0 .. maxSignups, mau : 1 .. MaxTarget, dau : 1 .. MaxTarget]

RECURSIVE SumSignups(_)
SumSignups(plan) ==
    IF plan = <<>> THEN 0 ELSE Head(plan).signups + SumSignups(Tail(plan))

\* the plans of at most total signups; every entry of a plan has the same
\* mau and dau targets
PlansUpTo(total) ==
    {plan \in UNION {[1 .. n -> PeriodSpecs(total)] : n \in 1 .. MaxPeriods} :
        /\ SumSignups(plan) <= total
        /\ \A k \in DOMAIN plan :
              plan[k].mau = plan[1].mau /\ plan[k].dau = plan[1].dau}

Plans == PlansUpTo(MaxUsers)

\* SamplerSpec never reads mau and dau
SamplerPlans == {plan \in PlansUpTo(MaxTotal) : plan[1].mau = 1 /\ plan[1].dau = 1}

\* Math.round of a non-negative tenth: Math.round(0.6 * n), Math.round(0.3 * n)
RoundTenths(k, n) == (k * n + 5) \div 10

initialQuota(total) ==
    [IN |-> RoundTenths(6, total),
     US |-> RoundTenths(3, total),
     EU |-> total - RoundTenths(6, total) - RoundTenths(3, total)]

totalLeft(q) == q.IN + q.US + q.EU

\* Math.random() * totalLeft, as the integer below the roll (the quotas are
\* integers, so the comparisons depend on nothing else)
Rolls(q) == IF totalLeft(q) > 0 THEN 0 .. (totalLeft(q) - 1) ELSE {0}

pickRegionInclusive(q, roll) ==
    IF roll <= q.IN THEN "IN"
    ELSE IF roll <= q.IN + q.US THEN "US"
    ELSE "EU"

pickRegion(q, roll) ==
    IF roll < q.IN THEN "IN"
    ELSE IF roll < q.IN + q.US THEN "US"
    ELSE "EU"

quotaUntouched(q, region) == q

quotaAfter(q, region) == [q EXCEPT ![region] = @ - 1]

(***************************************************************************)
(* Geo cache.                                                              *)
(***************************************************************************)
GeoCap == 3

\* The city pools are cut to one base city per region.  The script keys
\* geoUsage by the rounded `${lat}_${lon}`; lat and lon are the base of the
\* city plus the jitter, and the bases lie further apart than the jitter
\* reaches, so a key is the city with the rounded jitter of each coordinate.
Jitter == 0 .. MaxJitter
GeoKeys == Regions \X Jitter \X Jitter

pickCity(region) == {region}

EmptyGeo == [k \in GeoKeys |-> 0]

NoCur == [signUpDate |-> 0, region |-> "none", city |-> "none"]

\* dataFinal is only appended to, and generateUsers never reads an event
\* back: the model keeps the whole of each event while it is the last one
\* pushed (pushed) and its kind and user afterwards (dataFinal)
stored(events) ==
    [k \in 1 .. Len(events) |->
        [event |-> events[k].event, distinct_id |-> events[k].distinct_id]]

(***************************************************************************)
(* generateUsers                                                           *)
(***************************************************************************)
InitGen(plans, offsets) ==
    /\ PLAN \in plans
    /\ tz \in offsets
    /\ pc = "signup"
    /\ m = 1
    /\ i = 0
    /\ d = 0
    /\ quota = initialQuota(SumSignups(PLAN))
    /\ geoUsage = EmptyGeo
    /\ cur = NoCur
    /\ allUsers = <<>>
    /\ monthlyActives = {}
    /\ dataFinal = <<>>
    /\ pushed = <<>>
    /\ IdleData
    /\ IdleUser
    /\ IdleRest

\* STEP 1, one iteration up to the call of uniqueLatLon; dates are the
\* outcomes of randDate(monthStart, monthEnd)
BeginSignUp(dates) ==
    /\ pc = "signup"
    /\ i < PLAN[m].signups
    /\ \E signUpDate \in dates, roll \in Rolls(quota) :
          LET region == pickRegion(quota, roll)
          IN  /\ quota' = quotaAfter(quota, region)
              /\ \E city \in pickCity(region) :
                    cur' = [signUpDate |-> signUpDate, region |-> region, city |-> city]
    /\ pc' = "geo"
    /\ pushed' = <<>>
    /\ UNCHANGED <<PLAN, tz, m, i, d, geoUsage, allUsers, monthlyActives, dataFinal>>
    /\ UNCHANGED <<dataVars, userVars, restVars>>

SignUpBegin == BeginSignUp(randDate(monthRange(m).start, monthRange(m).end))

\* one iteration of the while (true) of uniqueLatLon, and on return the rest
\* of the STEP 1 iteration: the user and its sign-up event are pushed
signUpUser(c, lat, lon) ==
    [signUpDate |-> c.signUpDate, region |-> c.region, city |-> c.city,
     lat |-> lat, lon |-> lon]

signUpEvent(id, c) ==
    <<[event |-> "user-sign-up", distinct_id |-> id, timestamp |-> c.signUpDate]>>

underCapInclusive(usage, key) == usage[key] <= GeoCap

underCap(usage, key) == usage[key] < GeoCap

uniqueLatLon ==
    /\ pc = "geo"
    /\ \E lat \in Jitter, lon \in Jitter :
          LET key == <<cur.city, lat, lon>>
          IN  IF underCap(geoUsage, key)
              THEN /\ geoUsage' = [geoUsage EXCEPT ![key] = @ + 1]
                   /\ allUsers' = Append(allUsers, signUpUser(cur, lat, lon))
                   /\ pushed' = signUpEvent(Len(allUsers) + 1, cur)
                   /\ dataFinal' = dataFinal \o stored(pushed')
                   /\ cur' = NoCur
                   /\ i' = i + 1
                   /\ pc' = "signup"
              ELSE UNCHANGED <<geoUsage, allUsers, dataFinal, pushed, cur, i, pc>>
    /\ UNCHANGED <<PLAN, tz, m, d, quota, monthlyActives>>
    /\ UNCHANGED <<dataVars, userVars, restVars>>

\* the exit of for (let i = 0; i < signups; i++), left one pass early
signupLoopEndsEarly(count, signups) == ~ (count + 1 < signups)

\* the exit of for (let i = 0; i < signups; i++)
signupLoopEnds(count, signups) == ~ (count < signups)

\* STEP 1 is over: STEP 2 starts at day 1
StartDaily ==
    /\ pc = "signup"
    /\ signupLoopEnds(i, PLAN[m].signups)
    /\ pc' = "daily"
    /\ d' = 1
    /\ pushed' = <<>>
    /\ UNCHANGED <<PLAN, tz, m, i, quota, geoUsage, cur, allUsers, monthlyActives,
                   dataFinal>>
    /\ UNCHANGED <<dataVars, userVars, restVars>>

\* getDailyUserCount: faker.number.int({min: Math.floor(target * 0.6), max: target})
getDailyUserCountAbove(target) == ((6 * target) \div 10) .. (target + 1)

getDailyUserCount(target) == ((6 * target) \div 10) .. target

Ids(users) == 1 .. Len(users)

\* allUsers.filter((u) => u.signUpDate <= day)
eligibleOn(users, day) == {u \in Ids(users) : users[u].signUpDate <= day}

\* faker.helpers.arrayElements(array, count): count distinct elements
arrayElements(S, count) == {T \in SUBSET S : Cardinality(T) = count}

RECURSIVE SeqOfSet(_)
SeqOfSet(S) ==
    IF S = {} THEN <<>>
    ELSE LET x == CHOOSE y \in S : \A z \in S : y <= z
         IN  <<x>> \o SeqOfSet(S \ {x})

\* the user-active events of the users of T with the timestamps ts, in id
\* order (the order in which arrayElements returns them is not modelled)
activeEvents(T, ts) ==
    LET ids == SeqOfSet(T)
    IN  [k \in 1 .. Len(ids) |->
            [event |-> "user-active", distinct_id |-> ids[k], timestamp |-> ts[ids[k]]]]

\* STEP 2, one day
DailyActives ==
    /\ pc = "daily"
    /\ d <= daysInMonthOf(m, tz)
    /\ LET day == dayStart(m, d)
           eligible == eligibleOn(allUsers, day)
       IN  \E drawn \in getDailyUserCount(PLAN[m].dau) :
           \E sampled \in arrayElements(eligible, Min(drawn, Cardinality(eligible))) :
           \E ts \in [sampled -> randDate(day, day + Hours(12))] :
              /\ monthlyActives' = monthlyActives \cup sampled
              /\ pushed' = activeEvents(sampled, ts)
              /\ dataFinal' = dataFinal \o stored(pushed')
    /\ d' = d + 1
    /\ UNCHANGED <<PLAN, tz, pc, m, i, quota, geoUsage, cur, allUsers>>
    /\ UNCHANGED <<dataVars, userVars, restVars>>

\* the filter of STEP 3 without its second condition
topUpOfAll(users, actives, monthEnd) ==
    {u \in 1 .. Len(users) : users[u].signUpDate <= monthEnd}

\* allUsers.filter((u) => u.signUpDate <= monthEnd && !monthlyActives.has(u.id))
topUpEligible(users, actives, monthEnd) ==
    {u \in Ids(users) : users[u].signUpDate <= monthEnd /\ u \notin actives}

\* STEP 3, after the last day of STEP 2
FulfillMAU ==
    /\ pc = "daily"
    /\ d > daysInMonthOf(m, tz)
    /\ IF Cardinality(monthlyActives) < PLAN[m].mau
       THEN LET eligible == topUpEligible(allUsers, monthlyActives, monthRange(m).end)
                count == Min(PLAN[m].mau - Cardinality(monthlyActives),
                             Cardinality(eligible))
            IN  \E toAdd \in arrayElements(eligible, count) :
                \E ts \in [toAdd -> randDate(monthRange(m).start, monthRange(m).end)] :
                   /\ monthlyActives' = monthlyActives \cup toAdd
                   /\ pushed' = activeEvents(toAdd, ts)
                   /\ dataFinal' = dataFinal \o stored(pushed')
       ELSE /\ pushed' = <<>>
            /\ UNCHANGED <<monthlyActives, dataFinal>>
    /\ pc' = "report"
    /\ UNCHANGED <<PLAN, tz, m, i, d, quota, geoUsage, cur, allUsers>>
    /\ UNCHANGED <<dataVars, userVars, restVars>>

\* the console.log closing a month, then the next PLAN entry (or the end)
EndMonth(at) ==
    /\ pc = at
    /\ IF m < Len(PLAN)
       THEN /\ m' = m + 1
            /\ pc' = "signup"
            /\ i' = 0
            /\ d' = 0
            /\ monthlyActives' = {}
       ELSE /\ pc' = "done"
            /\ UNCHANGED <<m, i, d, monthlyActives>>
    /\ pushed' = <<>>
    /\ UNCHANGED <<PLAN, tz, quota, geoUsage, cur, allUsers, dataFinal>>
    /\ UNCHANGED <<dataVars, userVars, restVars>>

NextMonth == EndMonth("report")

Next ==
    \/ SignUpBegin
    \/ uniqueLatLon
    \/ StartDaily
    \/ DailyActives
    \/ FulfillMAU
    \/ NextMonth

Init == InitGen(Plans, TzOffsets)

Spec == Init /\ [][Next]_vars

(***************************************************************************)
(* SamplerSpec: generateUsers seen through the Region/Attribute Sampler    *)
(* and the Geo cache.  STEP 2 and STEP 3 neither read nor write quota,     *)
(* geoUsage or allUsers and are left out; of the outcomes of randDate the  *)
(* earliest one is followed.  That leaves room for plans large enough to   *)
(* fill a rounded pair.                                                    *)
(***************************************************************************)
SamplerSignUp == BeginSignUp({monthRange(m).start})

SamplerNextMonth ==
    /\ i >= PLAN[m].signups
    /\ EndMonth("signup")

SamplerNext ==
    \/ SamplerSignUp
    \/ uniqueLatLon
    \/ SamplerNextMonth

SamplerInit == InitGen(SamplerPlans, {0})

SamplerSpec == SamplerInit /\ [][SamplerNext]_vars

\* a running process takes its next step
FairSampler == SamplerSpec /\ WF_vars(SamplerNext)

(***************************************************************************)
(* Exact arithmetic for file sizes: a size in MB is a fraction <<n, d>>    *)
(* in lowest terms, d > 0.  The scripts compute in binary floating point;  *)
(* the model computes the same expressions without rounding error.         *)
(***************************************************************************)
Abs(x) == IF x < 0 THEN 0 - x ELSE x

RECURSIVE GCD(_, _)
GCD(a, b) == IF b = 0 THEN a ELSE GCD(b, a % b)

Rat(num, den) ==
    LET g == GCD(Abs(num), den)
    IN  IF num = 0 THEN <<0, 1>> ELSE <<num \div g, den \div g>>

Whole(n) == <<n, 1>>
Plus(x, y) == Rat(x[1] * y[2] + y[1] * x[2], x[2] * y[2])
Minus(x, y) == Rat(x[1] * y[2] - y[1] * x[2], x[2] * y[2])
Times(x, y) == Rat(x[1] * y[1], x[2] * y[2])
Over(x, y) == Rat(x[1] * y[2], x[2] * y[1])
Less(x, y) == x[1] * y[2] < y[1] * x[2]
AtMost(x, y) == x[1] * y[2] <= y[1] * x[2]
Greatest(x, y) == IF Less(x, y) THEN y ELSE x

(***************************************************************************)
(* The data generator: generateDataEventsForMonth, once per month of       *)
(* MONTHS_PLAN.  Two variants of the script differ in the spread and the   *)
(* floor of the Phase 1 file sizes and in the bound on the event count.    *)
(***************************************************************************)
MaxMonths == 2        \* entries of MONTHS_PLAN
MaxEvents == 2        \* data_generated events of a month
MaxGenerations == 4   \* targetDataGenerations / estimatedTotalEvents

MaxDataUsers == 2     \* users that generate data

Scripts == {"part_003", "part_002"}

\* the users faker.helpers.arrayElement draws from, and their addresses
DataUsers == 1 .. MaxDataUsers
emailOf(user) == <<"mail", user>>

\* targetFileSize / (1024 * 1024): a plan in the gigabytes and one far
\* below a megabyte
TargetsMB == {Whole(10), <<1, 20>>}

MonthPlans == [targetFileSizeMB : TargetsMB, generations : 0 .. MaxGenerations]

\* faker.number.float({min, max}): the lower end and a value inside
variations(sc) == IF sc = "part_003" THEN {Whole(2), Whole(5)} ELSE {<<4, 5>>, Whole(3)}
minimumFileSize(sc) == IF sc = "part_003" THEN Whole(1) ELSE <<1, 5>>
idealFactors == {<<11, 10>>, <<9, 8>>}
boostShares == {<<4, 5>>, Whole(1), <<7, 5>>}

scaleFloor == <<1, 10>>

\* a limit below the target
overageBelowTarget == <<9, 10>>

overageLimit == <<6, 5>>

\* a buffer as large as the limit
targetBufferOfLimit == <<6, 5>>

targetBuffer == <<23, 20>>

generateFileSizeForEvent(sc, targetAvgSizeMB, variation) ==
    Greatest(Times(targetAvgSizeMB, variation), minimumFileSize(sc))

\* calculateWordsFromFileSize: Math.round(fileSizeMB * 1024 * 1024 / 8.6),
\* computed on the fraction after cancelling the common factor
calculateWordsFromFileSize(fileSizeMB) ==
    LET g == GCD(1024 * 1024 * 5, fileSizeMB[2])
        num == fileSizeMB[1] * ((1024 * 1024 * 5) \div g)
        den == (fileSizeMB[2] \div g) * 43
        whole == num \div den
    IN  IF 2 * (num % den) >= den THEN whole + 1 ELSE whole

\* an assignment to file_size that leaves words as it was
withFileSizeOnly(e, fileSize) == [e EXCEPT !.file_size = fileSize]

\* event.file_size = ...; event.words = calculateWordsFromFileSize(event.file_size)
withFileSize(e, fileSize) ==
    [e EXCEPT !.file_size = fileSize,
              !.words = calculateWordsFromFileSize(fileSize)]

\* the filter of Phase 2 without its lower bound on the date
monthEventsUpTo(events, mo) ==
    LET RECURSIVE from(_)
        from(k) ==
            IF k > Len(events) THEN <<>>
            ELSE IF events[k].event = "data_generated" /\ events[k].month <= mo
                 THEN <<k>> \o from(k + 1)
                 ELSE from(k + 1)
    IN  from(1)

\* positions in allEvents of the data_generated events of month mo, in
\* list order: the filter on the timestamp and the kind of an event
RECURSIVE monthEventsFrom(_, _, _)
monthEventsFrom(events, mo, k) ==
    IF k > Len(events) THEN <<>>
    ELSE IF events[k].event = "data_generated" /\ events[k].month = mo
         THEN <<k>> \o monthEventsFrom(events, mo, k + 1)
         ELSE monthEventsFrom(events, mo, k + 1)

monthEvents(events, mo) == monthEventsFrom(events, mo, 1)

RECURSIVE sumFileSize(_, _)
sumFileSize(events, at) ==
    IF at = <<>> THEN <<0, 1>>
    ELSE Plus(events[Head(at)].file_size, sumFileSize(events, Tail(at)))

DataInit ==
    /\ script \in Scripts
    /\ dpc = "month"
    /\ dm = 1
    /\ monthData = <<>>
    /\ allEvents = <<>>
    /\ eventsGenerated = 0
    /\ totalFileSizeGenerated = <<0, 1>>
    /\ targetIdeal = <<0, 1>>
    /\ extraFileSizePerEvent = <<0, 1>>
    /\ next = 0
    /\ IdleGen
    /\ IdleUser
    /\ IdleRest

\* entry of generateDataEventsForMonth
BeginDataMonth ==
    /\ dpc = "month"
    /\ monthData' \in MonthPlans
    /\ eventsGenerated' = 0
    /\ totalFileSizeGenerated' = <<0, 1>>
    /\ dpc' = "phase1"
    /\ UNCHANGED <<script, dm, allEvents, targetIdeal, extraFileSizePerEvent, next>>
    /\ UNCHANGED <<genVars, userVars, restVars>>

\* a data_downloaded event pushed whether the job failed or not
secondaryOfBoth(sc, jobSuccessful, dataEvent, later) ==
    IF sc = "part_002" THEN <<>>
    ELSE (IF jobSuccessful THEN <<>>
          ELSE <<[event |-> "job_failed", month |-> later,
                  period |-> dataEvent.period,
                  user_id |-> dataEvent.user_id, email |-> dataEvent.email,
                  projectId |-> dataEvent.projectId]>>)
         \o <<[dataEvent EXCEPT !.event = "data_downloaded", !.month = later]>>

\* the event that follows a data_generated event: none in part_002; in
\* part_003 a job_failed event, or else a data_downloaded event with the
\* file size and the words of the data event as they are at that moment.
\* Its timestamp is up to an hour (job_failed) or a day (data_downloaded)
\* after that of the data event: later is the month it falls in.
secondary(sc, jobSuccessful, dataEvent, later) ==
    IF sc = "part_002" THEN <<>>
    ELSE IF jobSuccessful
         THEN <<[dataEvent EXCEPT !.event = "data_downloaded", !.month = later]>>
         ELSE <<[event |-> "job_failed", month |-> later,
                 period |-> dataEvent.period,
                 user_id |-> dataEvent.user_id, email |-> dataEvent.email,
                 projectId |-> dataEvent.projectId]>>

\* Phase 1, one pass of the inner loop; an event carries the month of its
\* timestamp (month) and, for the properties, the month whose call of
\* generateDataEventsForMonth pushed it (period).  eventTime lies in the
\* month; eventTime + Math.random() * 3600000 or * 86400000 lies in the
\* month or, for an event of the last day, in the next: offsets are the
\* outcomes followed, users the users drawn from
GenerateDataEventOf(users, offsets) ==
    /\ dpc = "phase1"
    /\ eventsGenerated < MaxEvents
    /\ monthData.generations > 0
    /\ script = "part_003" => eventsGenerated < monthData.generations
    /\ \E user \in users, variation \in variations(script), jobSuccessful \in BOOLEAN,
          later \in {dm + o : o \in offsets} :
          LET targetAvg == Over(monthData.targetFileSizeMB, Whole(monthData.generations))
              fileSize == generateFileSizeForEvent(script, targetAvg, variation)
              dataEvent == [event |-> "data_generated", month |-> dm, period |-> dm,
                            user_id |-> user, email |-> emailOf(user),
                            projectId |-> Len(allEvents) + 1, file_size |-> fileSize,
                            words |-> calculateWordsFromFileSize(fileSize)]
          IN  /\ allEvents' = (allEvents \o <<dataEvent>>)
                                  \o secondary(script, jobSuccessful, dataEvent, later)
              /\ totalFileSizeGenerated' = Plus(totalFileSizeGenerated, fileSize)
    /\ eventsGenerated' = eventsGenerated + 1
    /\ UNCHANGED <<script, dpc, dm, monthData, targetIdeal, extraFileSizePerEvent, next>>
    /\ UNCHANGED <<genVars, userVars, restVars>>

GenerateDataEvent == GenerateDataEventOf(DataUsers, {0})

\* the end of generateDataEventsForMonth: the total is recomputed from the
\* events of the month
returned(events) ==
    /\ allEvents' = events
    /\ totalFileSizeGenerated' = sumFileSize(events, monthEvents(events, dm))
    /\ dpc' = "done"

\* a scale-down that builds the events anew and stamps them with the month
\* being closed and the first user
rebuilt(events, at, scaleFactor) ==
    [k \in DOMAIN events |->
        IF \E j \in DOMAIN at : at[j] = k
        THEN [event |-> "data_generated", month |-> dm, period |-> dm,
              user_id |-> 1, email |-> <<"mail", 1>>,
              projectId |-> events[k].projectId,
              file_size |-> Times(events[k].file_size, scaleFactor),
              words |-> events[k].words]
        ELSE events[k]]

scaled(events, at, scaleFactor) ==
    [k \in DOMAIN events |->
        IF \E j \in DOMAIN at : at[j] = k
        THEN withFileSize(events[k],
                 Greatest(scaleFloor, Times(events[k].file_size, scaleFactor)))
        ELSE events[k]]

\* Phase 2 up to the first pass of the boost loop
BeginPhase2 ==
    /\ dpc = "phase1"
    /\ LET targetFileSizeMB == monthData.targetFileSizeMB
           targetMinimum == targetFileSizeMB
           selected == monthEvents(allEvents, dm)
       IN  \E factor \in idealFactors :
              /\ targetIdeal' = Times(targetFileSizeMB, factor)
              /\ IF Less(totalFileSizeGenerated, targetMinimum)
                 THEN LET deficitToMinimum == Minus(targetMinimum, totalFileSizeGenerated)
                          extraToIdeal == Minus(targetIdeal', targetMinimum)
                          totalIncrease == Plus(deficitToMinimum, extraToIdeal)
                      IN  IF Len(selected) > 0
                          THEN /\ extraFileSizePerEvent' =
                                     Over(totalIncrease, Whole(Len(selected)))
                               /\ next' = 1
                               /\ dpc' = "boost"
                               /\ UNCHANGED <<allEvents, totalFileSizeGenerated>>
                          ELSE /\ returned(allEvents)
                               /\ UNCHANGED <<extraFileSizePerEvent, next>>
                 ELSE IF Less(Times(targetFileSizeMB, overageLimit), totalFileSizeGenerated)
                 THEN LET targetWithBuffer == Times(targetFileSizeMB, targetBuffer)
                          scaleFactor == Over(targetWithBuffer, totalFileSizeGenerated)
                      IN  /\ returned(scaled(allEvents, selected, scaleFactor))
                          /\ UNCHANGED <<extraFileSizePerEvent, next>>
                 ELSE /\ returned(allEvents)
                      /\ UNCHANGED <<extraFileSizePerEvent, next>>
    /\ UNCHANGED <<script, dm, monthData, eventsGenerated>>
    /\ UNCHANGED <<genVars, userVars, restVars>>

\* one pass of the boost loop
BoostEvent ==
    /\ dpc = "boost"
    /\ LET selected == monthEvents(allEvents, dm)
           at == selected[next]
       IN  \E share \in boostShares :
              LET additionalFileSize == Times(extraFileSizePerEvent, share)
                  boosted == [allEvents EXCEPT
                                 ![at] = withFileSize(@, Plus(@.file_size, additionalFileSize))]
                  total == Plus(totalFileSizeGenerated, additionalFileSize)
              IN  IF AtMost(targetIdeal, total) \/ next = Len(selected)
                  THEN /\ returned(boosted)
                       /\ UNCHANGED next
                  ELSE /\ allEvents' = boosted
                       /\ totalFileSizeGenerated' = total
                       /\ next' = next + 1
                       /\ UNCHANGED dpc
    /\ UNCHANGED <<script, dm, monthData, eventsGenerated, targetIdeal,
                   extraFileSizePerEvent>>
    /\ UNCHANGED <<genVars, userVars, restVars>>

\* main: the next entry of MONTHS_PLAN
NextDataMonth ==
    /\ dpc = "done"
    /\ dm < MaxMonths
    /\ dm' = dm + 1
    /\ dpc' = "month"
    /\ UNCHANGED <<script, monthData, allEvents, eventsGenerated,
                   totalFileSizeGenerated, targetIdeal, extraFileSizePerEvent, next>>
    /\ UNCHANGED <<genVars, userVars, restVars>>

DataNext ==
    \/ BeginDataMonth
    \/ GenerateDataEvent
    \/ BeginPhase2
    \/ BoostEvent
    \/ NextDataMonth

DataSpec == DataInit /\ [][DataNext]_vars

(***************************************************************************)
(* PeriodSpec: the data generator seen across the months.  Of the users    *)
(* one is followed; of the secondary events both outcomes are: a timestamp *)
(* in the month of the data event and one in the month after it.           *)
(***************************************************************************)
GenerateDataEventOfPeriod == GenerateDataEventOf({1}, {0, 1})

PeriodNext ==
    \/ BeginDataMonth
    \/ GenerateDataEventOfPeriod
    \/ BeginPhase2
    \/ BoostEvent
    \/ NextDataMonth

PeriodSpec == DataInit /\ [][PeriodNext]_vars

(***************************************************************************)
(* Properties of the data generator                                        *)
(***************************************************************************)
\* the magnitudes of the data_generated events of the month, added up
periodSum == sumFileSize(allEvents, monthEvents(allEvents, dm))

\* C1: when generateDataEventsForMonth returns for a month that has data
\* events, their file sizes add up to at least the target of the month.
C1_SumAtLeastTarget ==
    (dpc = "done" /\ eventsGenerated >= 1) =>
        AtMost(monthData.targetFileSizeMB, periodSum)

\* C2: when generateDataEventsForMonth returns for a month that has data
\* events, their file sizes add up to at most 1.2 times the target.
C2_SumAtMostOverage ==
    (dpc = "done" /\ eventsGenerated >= 1) =>
        AtMost(periodSum, Times(monthData.targetFileSizeMB, overageLimit))

\* events that follow from the data_generated event at position k
secondaryOf(k) ==
    {j \in DOMAIN allEvents :
        /\ allEvents[j].event \in {"job_failed", "data_downloaded"}
        /\ allEvents[j].projectId = allEvents[k].projectId}

dataGenerated == {k \in DOMAIN allEvents : allEvents[k].event = "data_generated"}

\* C18: a data_generated event has at most one secondary event, a job_failed
\* or else a data_downloaded event, of the same project and the same user;
\* every secondary event belongs to a data_generated event.
C18_OneSecondary ==
    /\ \A k \in dataGenerated :
          /\ Cardinality(secondaryOf(k)) <= 1
          /\ Cardinality({j \in dataGenerated :
                             allEvents[j].projectId = allEvents[k].projectId}) = 1
          /\ \A j \in secondaryOf(k) :
                /\ j = k + 1
                /\ allEvents[j].user_id = allEvents[k].user_id
                /\ allEvents[j].email = allEvents[k].email
    /\ \A j \in DOMAIN allEvents :
          allEvents[j].event # "data_generated" => \E k \in dataGenerated : j \in secondaryOf(k)

\* a failed job of the second user and a download of the first
C18_Witness ==
    /\ \E k \in dataGenerated : \E j \in secondaryOf(k) :
          allEvents[j].event = "job_failed" /\ allEvents[j].user_id = 2
    /\ \E k \in dataGenerated : \E j \in secondaryOf(k) :
          allEvents[j].event = "data_downloaded" /\ allEvents[j].user_id = 1

\* what tells who made an event, for which project and when
identity(e) ==
    [event |-> e.event, month |-> e.month, user_id |-> e.user_id,
     email |-> e.email, projectId |-> e.projectId]

\* C20: no step changes the time, user, address or project of an event that
\* is in allEvents; Phase 2 keeps the list as long as it is, and an event
\* that is not a data_generated event of the month as it is.
C20_IdentityKept ==
    [][/\ \A k \in DOMAIN allEvents :
             /\ k \in DOMAIN allEvents'
             /\ identity(allEvents'[k]) = identity(allEvents[k])
       /\ (dpc' \in {"boost", "done"}) =>
             /\ Len(allEvents') = Len(allEvents)
             /\ \A k \in DOMAIN allEvents :
                   (allEvents[k].event # "data_generated" \/ allEvents[k].month # dm)
                       => allEvents'[k] = allEvents[k]]_vars

\* Phase 2 has changed the size of an event of the second user in the second
\* month: the download beside it carries the size the event was created with
C20_Witness ==
    /\ dpc = "done"
    /\ dm = 2
    /\ \E k \in dataGenerated : \E j \in secondaryOf(k) :
          /\ allEvents[k].month = 2
          /\ allEvents[k].user_id = 2
          /\ allEvents[j].event = "data_downloaded"
          /\ allEvents[j].file_size # allEvents[k].file_size

(***************************************************************************)
(* The signup generator of user.ts: generateAllUserEvents calls            *)
(* generateUsersForMonth for every entry of MONTHLY_PLAN.  Between two     *)
(* months generateLoginEventsForMonth runs; it pushes "user-logged-in"     *)
(* events only and touches nothing this specification looks at.            *)
(***************************************************************************)
MONTHLY_PLAN ==
    << [month |-> "2025-01", signups |-> 45,
        countryDistribution |-> [India |-> 11, USA |-> 27, Europe |-> 5, UAE |-> 2]],
       [month |-> "2025-02", signups |-> 58,
        countryDistribution |-> [India |-> 15, USA |-> 35, Europe |-> 6, UAE |-> 2]],
       [month |-> "2025-03", signups |-> 74,
        countryDistribution |-> [India |-> 18, USA |-> 44, Europe |-> 7, UAE |-> 4]],
       [month |-> "2025-04", signups |-> 94,
        countryDistribution |-> [India |-> 24, USA |-> 56, Europe |-> 9, UAE |-> 5]],
       [month |-> "2025-05", signups |-> 120,
        countryDistribution |-> [India |-> 30, USA |-> 72, Europe |-> 12, UAE |-> 6]] >>

\* Object.values(countryDistribution).reduce((sum, count) => sum + count, 0)
sumOfDistribution(dist) == dist.India + dist.USA + dist.Europe + dist.UAE

UserInit ==
    /\ upc = "month"
    /\ umonth = 1
    /\ targetSignups = 0
    /\ uloop = 0
    /\ signedUp = [k \in DOMAIN MONTHLY_PLAN |-> 0]
    /\ IdleGen
    /\ IdleData
    /\ IdleRest

\* entry of generateUsersForMonth, up to the user loop
BeginUsersForMonth ==
    /\ upc = "month"
    /\ targetSignups' = sumOfDistribution(MONTHLY_PLAN[umonth].countryDistribution)
    /\ uloop' = 0
    /\ upc' = "users"
    /\ UNCHANGED <<umonth, signedUp>>
    /\ UNCHANGED <<genVars, dataVars, restVars>>

\* one pass of the user loop: a user and its "user-signed-up" event
SignUpUser ==
    /\ upc = "users"
    /\ uloop < targetSignups
    /\ signedUp' = [signedUp EXCEPT ![umonth] = @ + 1]
    /\ uloop' = uloop + 1
    /\ UNCHANGED <<upc, umonth, targetSignups>>
    /\ UNCHANGED <<genVars, dataVars, restVars>>

\* the loop is over; generateAllUserEvents goes on to the next month
EndUsersForMonth ==
    /\ upc = "users"
    /\ uloop >= targetSignups
    /\ IF umonth < Len(MONTHLY_PLAN)
       THEN /\ umonth' = umonth + 1
            /\ upc' = "month"
       ELSE /\ upc' = "sorted"
            /\ UNCHANGED umonth
    /\ UNCHANGED <<targetSignups, uloop, signedUp>>
    /\ UNCHANGED <<genVars, dataVars, restVars>>

UserNext ==
    \/ BeginUsersForMonth
    \/ SignUpUser
    \/ EndUsersForMonth

UserSpec == UserInit /\ [][UserNext]_vars

\* generateUsersForMonth has returned for month k
usersGenerated(k) == k < umonth \/ (k = umonth /\ upc = "sorted")

\* C5: for every month of MONTHLY_PLAN, generateUsersForMonth pushes as
\* many "user-signed-up" events as the signups target of the month says.
C5_SignupsMatchPlan ==
    \A k \in DOMAIN MONTHLY_PLAN :
        usersGenerated(k) => signedUp[k] = MONTHLY_PLAN[k].signups

(***************************************************************************)
(* Properties of generateUsers                                             *)
(***************************************************************************)
TOTAL == SumSignups(PLAN)

\* users whose sign-up date lies in the window of PLAN entry k
usersOf(k) ==
    {u \in Ids(allUsers) :
        /\ monthRange(k).start <= allUsers[u].signUpDate
        /\ allUsers[u].signUpDate <= monthRange(k).end}

signUpEventsOf(k) ==
    {j \in DOMAIN dataFinal :
        /\ dataFinal[j].event = "user-sign-up"
        /\ dataFinal[j].distinct_id \in usersOf(k)}

\* STEP 1 of PLAN entry k is over
stepOneDone(k) == k < m \/ (k = m /\ pc \in {"daily", "report", "done"})

usersIn(region) == {u \in Ids(allUsers) : allUsers[u].region = region}

\* C3: every "user-active" event carries a timestamp that is not earlier
\* than the sign-up date of the user it belongs to.
C3_ActiveNotBeforeSignUp ==
    \A k \in DOMAIN pushed :
        pushed[k].event = "user-active" =>
            pushed[k].timestamp >= allUsers[pushed[k].distinct_id].signUpDate

\* C4: once STEP 1 of a period is over, exactly PLAN[k].signups users have
\* their sign-up date inside the window of that period and exactly as many
\* "user-sign-up" events belong to them; the pool holds the users of the
\* periods begun so far and nobody else, and a sign-up event carries the
\* sign-up date of its user, inside the window of the current period.
C4_SignupsExact ==
    /\ \A k \in DOMAIN PLAN :
          stepOneDone(k) =>
              /\ Cardinality(usersOf(k)) = PLAN[k].signups
              /\ Cardinality(signUpEventsOf(k)) = PLAN[k].signups
    /\ Ids(allUsers) = UNION {usersOf(k) : k \in 1 .. m}
    /\ Cardinality(usersOf(m)) <= PLAN[m].signups
    /\ \A k \in DOMAIN pushed :
          pushed[k].event = "user-sign-up" =>
              /\ pushed[k].distinct_id = Len(allUsers)
              /\ pushed[k].timestamp = allUsers[Len(allUsers)].signUpDate
              /\ monthRange(m).start <= pushed[k].timestamp
              /\ pushed[k].timestamp <= monthRange(m).end

\* a run over two periods that both signed users up has ended
C4_Witness ==
    /\ pc = "done"
    /\ Len(PLAN) = 2
    /\ PLAN[1].signups = 1
    /\ PLAN[2].signups = 1
    /\ Cardinality(usersOf(2)) = 1

\* C6: no rounded (city, lat, lon) triple is ever returned more than three
\* times.
C6_GeoCap == \A key \in GeoKeys : geoUsage[key] <= GeoCap

\* a pair of the city has been returned three times and a further user of
\* that city is waiting for coordinates
C6_Witness ==
    /\ pc = "geo"
    /\ \E lat \in Jitter, lon \in Jitter : geoUsage[<<cur.city, lat, lon>>] = GeoCap

\* C7: a call of uniqueLatLon ends: with coordinates, or with an error once
\* the retry bound is used up.
C7_GeoCallEnds == (pc = "geo") ~> (pc # "geo")

\* regions picked so far: the users of the pool and the one being built
picked(region) ==
    Cardinality(usersIn(region))
        + (IF pc = "geo" /\ cur.region = region THEN 1 ELSE 0)

\* round(0.6 n), round(0.3 n) and the remainder
shareOf(region, n) ==
    CASE region = "IN" -> RoundTenths(6, n)
      [] region = "US" -> RoundTenths(3, n)
      [] OTHER -> n - RoundTenths(6, n) - RoundTenths(3, n)

\* C8: the three quotas start at round(0.6 TOTAL), round(0.3 TOTAL) and the
\* remainder, none is ever negative, every pick has taken one from the
\* quota of the region it returned and from no other, and all three are
\* zero once the last user of the run has signed up.
C8_Quota ==
    \A r \in Regions :
        /\ quota[r] >= 0
        /\ quota[r] + picked(r) = shareOf(r, TOTAL)
        /\ Len(allUsers) = TOTAL => quota[r] = 0

\* a run that picked every region has ended
C8_Witness ==
    /\ pc = "done"
    /\ \A r \in Regions : usersIn(r) # {}

\* C9 as stated: the users of every period split into round(0.6 N) IN,
\* round(0.3 N) US and the remainder EU, N the signups of that period.
C9_PerPeriodShares ==
    \A k \in DOMAIN PLAN :
        stepOneDone(k) =>
            \A r \in Regions :
                Cardinality(usersIn(r) \cap usersOf(k)) = shareOf(r, PLAN[k].signups)

\* C9: the users of the whole run split into round(0.6 TOTAL) IN,
\* round(0.3 TOTAL) US and the remainder EU; the users of a period split
\* that way when the plan holds that period only.
C9_RunShares ==
    Len(allUsers) = TOTAL =>
        /\ \A r \in Regions : Cardinality(usersIn(r)) = shareOf(r, TOTAL)
        /\ Len(PLAN) = 1 =>
              \A r \in Regions :
                  Cardinality(usersIn(r) \cap usersOf(1)) = shareOf(r, PLAN[1].signups)

\* a run over two periods has ended whose first period did not get its own
\* 60 / 30 / 10 split
C9_Witness ==
    /\ pc = "done"
    /\ Len(PLAN) = 2
    /\ PLAN[1].signups > 0
    /\ PLAN[2].signups > 0
    /\ \E r \in Regions :
          Cardinality(usersIn(r) \cap usersOf(1)) # shareOf(r, PLAN[1].signups)

\* STEP 2 has just handled day d - 1
dayDone == pc = "daily" /\ d > 1

sampledCount == Len(pushed)

eligibleCount == Cardinality(eligibleOn(allUsers, dayStart(m, d - 1)))

floorSixTenths(target) == (6 * target) \div 10

\* C10 as stated: the number c of users sampled on a day satisfies
\* floor(0.6 dau) <= c <= dau and c <= eligible.length.
C10_DailyBand ==
    dayDone =>
        /\ floorSixTenths(PLAN[m].dau) <= sampledCount
        /\ sampledCount <= PLAN[m].dau
        /\ sampledCount <= eligibleCount

\* C10: c lies between min(floor(0.6 dau), eligible.length) and
\* min(dau, eligible.length), and the sampled users are distinct.
C10_DailyBandOfEligible ==
    dayDone =>
        /\ Min(floorSixTenths(PLAN[m].dau), eligibleCount) <= sampledCount
        /\ sampledCount <= Min(PLAN[m].dau, eligibleCount)
        /\ \A j, k \in DOMAIN pushed :
              pushed[j].distinct_id = pushed[k].distinct_id => j = k

\* a day on which fewer users were eligible than floor(0.6 dau), all of
\* them sampled
C10_Witness ==
    /\ dayDone
    /\ eligibleCount < floorSixTenths(PLAN[m].dau)
    /\ sampledCount = eligibleCount

(***************************************************************************)
(* The ticket generator, ticket.ts.  The script runs top to bottom: for    *)
(* every entry of targets it raises tickets, then resolves tickets that    *)
(* are still open; at the end it sorts the events by timestamp.            *)
(*                                                                         *)
(* A tick of the ticket clock is a minute, the resolution of               *)
(* createTimestamp: a raise falls on the start of its tick, a resolve      *)
(* anywhere inside one.  Month k covers the ticks (k-1) * TicketTicks ..   *)
(* k * TicketTicks - 1; monthEnd (23:59:59) lies inside the last of them.  *)
(***************************************************************************)
TicketMonths == 2     \* entries of targets
TicketTicks == 2      \* minutes of a month
MaxRaised == 2        \* ticketsRaised of an entry
MaxResolved == 2      \* ticketsResolved of an entry

TargetTables ==
    [1 .. TicketMonths ->
        [ticketsRaised : 0 .. MaxRaised, ticketsResolved : 0 .. MaxResolved]]

ticketMonthStart(k) == (k - 1) * TicketTicks
ticketMonthEnd(k) == k * TicketTicks - 1

\* createTimestamp(randomPick(days))
createTimestamp(k) == ticketMonthStart(k) .. ticketMonthEnd(k)

TicketInit ==
    /\ tpc = "raise"
    /\ targets \in TargetTables
    /\ tmonth = 1
    /\ ticketEvents = <<>>
    /\ raisedTickets = <<>>
    /\ ticketCounter = 1
    /\ traised = 0
    /\ ticketsToResolve = <<>>
    /\ tnext = 0
    /\ IdleGen
    /\ IdleData
    /\ IdleUser
    /\ IdleSend
    /\ IdleMore

\* one pass of the raise loop; the ticket id is drawn from the generator
\* seeded with ticketCounter * 100 and stands here as ticketCounter
RaiseTicket ==
    /\ tpc = "raise"
    /\ traised < targets[tmonth].ticketsRaised
    /\ \E timestamp \in createTimestamp(tmonth) :
          LET ticketId == ticketCounter
          IN  /\ raisedTickets' = Append(raisedTickets,
                                         [id |-> ticketId, timestamp |-> timestamp])
              /\ ticketEvents' = Append(ticketEvents,
                                        [event |-> "ticket-raised",
                                         ticketId |-> ticketId,
                                         timestamp |-> timestamp])
    /\ ticketCounter' = ticketCounter + 1
    /\ traised' = traised + 1
    /\ UNCHANGED <<tpc, targets, tmonth, ticketsToResolve, tnext>>
    /\ UNCHANGED <<genVars, dataVars, userVars, sendVars, moreVars>>

unresolvedOfThisMonth(tickets, evs) ==
    {k \in DOMAIN tickets :
        /\ tickets[k].timestamp >= ticketMonthStart(tmonth)
        /\ ~ \E j \in DOMAIN evs :
                evs[j].event = "ticket-resolved" /\ evs[j].ticketId = tickets[k].id}

everyTicket(tickets, evs) == DOMAIN tickets

\* raisedTickets.filter(ticket => !events.some(resolved event of ticket))
unresolved(tickets, evs) ==
    {k \in DOMAIN tickets :
        ~ \E j \in DOMAIN evs :
              evs[j].event = "ticket-resolved" /\ evs[j].ticketId = tickets[k].id}

\* .sort(() => Math.random() - 0.5).slice(0, count): the first count
\* tickets of some order of the open tickets
firstOfShuffled(open, count) ==
    {q \in [1 .. count -> open] : \A a, b \in 1 .. count : q[a] = q[b] => a = b}

\* the raise loop is over: choose the tickets to resolve
ChooseTicketsToResolve ==
    /\ tpc = "raise"
    /\ traised >= targets[tmonth].ticketsRaised
    /\ LET unresolvedTickets == unresolved(raisedTickets, ticketEvents)
           count == Min(targets[tmonth].ticketsResolved, Cardinality(unresolvedTickets))
       IN  \E q \in firstOfShuffled(unresolvedTickets, count) :
              ticketsToResolve' = [k \in 1 .. count |-> raisedTickets[q[k]]]
    /\ tnext' = 1
    /\ tpc' = "resolve"
    /\ UNCHANGED <<targets, tmonth, ticketEvents, raisedTickets, ticketCounter, traised>>
    /\ UNCHANGED <<genVars, dataVars, userVars, sendVars, moreVars>>

anyTimeOfMonth(raisedDate, k) == ticketMonthStart(k) .. ticketMonthEnd(k)

\* resolveStart + Math.random() * (monthEnd - resolveStart)
resolveTimes(raisedDate, k) ==
    LET monthStart == ticketMonthStart(k)
        resolveStart == IF raisedDate > monthStart THEN raisedDate ELSE monthStart
    IN  resolveStart .. ticketMonthEnd(k)

\* one pass of the resolve loop
ResolveTicket ==
    /\ tpc = "resolve"
    /\ tnext <= Len(ticketsToResolve)
    /\ LET ticket == ticketsToResolve[tnext]
       IN  \E resolveTime \in resolveTimes(ticket.timestamp, tmonth) :
              ticketEvents' = Append(ticketEvents,
                                     [event |-> "ticket-resolved",
                                      ticketId |-> ticket.id,
                                      timestamp |-> resolveTime])
    /\ tnext' = tnext + 1
    /\ UNCHANGED <<tpc, targets, tmonth, raisedTickets, ticketCounter, traised,
                   ticketsToResolve>>
    /\ UNCHANGED <<genVars, dataVars, userVars, sendVars, moreVars>>

\* the next entry of targets
NextTicketMonth ==
    /\ tpc = "resolve"
    /\ tnext > Len(ticketsToResolve)
    /\ tmonth < Len(targets)
    /\ tmonth' = tmonth + 1
    /\ traised' = 0
    /\ ticketsToResolve' = <<>>
    /\ tnext' = 0
    /\ tpc' = "raise"
    /\ UNCHANGED <<targets, ticketEvents, raisedTickets, ticketCounter>>
    /\ UNCHANGED <<genVars, dataVars, userVars, sendVars, moreVars>>

\* Array.prototype.sort is stable: an event goes behind every event whose
\* timestamp is not later than its own
insertBeforeEqual(sorted, e) ==
    LET before == {k \in DOMAIN sorted : sorted[k].timestamp < e.timestamp}
        n == Cardinality(before)
    IN  SubSeq(sorted, 1, n) \o <<e>> \o SubSeq(sorted, n + 1, Len(sorted))

insertSorted(sorted, e) ==
    LET before == {k \in DOMAIN sorted : sorted[k].timestamp <= e.timestamp}
        n == Cardinality(before)
    IN  SubSeq(sorted, 1, n) \o <<e>> \o SubSeq(sorted, n + 1, Len(sorted))

RECURSIVE sortByTimestamp(_)
sortByTimestamp(evs) ==
    IF evs = <<>> THEN <<>>
    ELSE insertSorted(sortByTimestamp(SubSeq(evs, 1, Len(evs) - 1)), evs[Len(evs)])

\* events.sort(...) and writeFileSync
SortTicketEvents ==
    /\ tpc = "resolve"
    /\ tnext > Len(ticketsToResolve)
    /\ tmonth >= Len(targets)
    /\ ticketEvents' = sortByTimestamp(ticketEvents)
    /\ tpc' = "written"
    /\ UNCHANGED <<targets, tmonth, raisedTickets, ticketCounter, traised,
                   ticketsToResolve, tnext>>
    /\ UNCHANGED <<genVars, dataVars, userVars, sendVars, moreVars>>

TicketNext ==
    \/ RaiseTicket
    \/ ChooseTicketsToResolve
    \/ ResolveTicket
    \/ NextTicketMonth
    \/ SortTicketEvents

TicketSpec == TicketInit /\ [][TicketNext]_vars

(***************************************************************************)
(* Properties of the ticket generator                                      *)
(***************************************************************************)
resolvedEvents == {j \in DOMAIN ticketEvents : ticketEvents[j].event = "ticket-resolved"}
raisedEvents == {j \in DOMAIN ticketEvents : ticketEvents[j].event = "ticket-raised"}

\* the resolve loop of the month is still to handle these tickets
stillToResolve ==
    IF tpc = "resolve"
    THEN {ticketsToResolve[k].id : k \in tnext .. Len(ticketsToResolve)}
    ELSE {}

\* C11: a ticket id has at most one ticket-resolved event, a ticket-resolved
\* event follows the ticket-raised event of its ticket in the order of
\* emission, and a ticket that has a ticket-resolved event is not among the
\* tickets a resolve loop is still to handle.
C11_ResolvedOnceAfterRaise ==
    /\ \A j, k \in resolvedEvents :
          ticketEvents[j].ticketId = ticketEvents[k].ticketId => j = k
    /\ tpc # "written" =>
          \A j \in resolvedEvents :
              \E k \in raisedEvents :
                  k < j /\ ticketEvents[k].ticketId = ticketEvents[j].ticketId
    /\ \A j \in resolvedEvents : ticketEvents[j].ticketId \notin stillToResolve
    /\ tpc = "resolve" =>
          \A a, b \in DOMAIN ticketsToResolve :
              ticketsToResolve[a].id = ticketsToResolve[b].id => a = b

\* the second month chooses its tickets while a ticket of the first month
\* is resolved and another one is still open
C11_Witness ==
    /\ tpc = "resolve"
    /\ tmonth = 2
    /\ Len(ticketsToResolve) >= 1
    /\ \E j \in resolvedEvents : ticketEvents[j].timestamp <= ticketMonthEnd(1)
    /\ \E k \in DOMAIN ticketsToResolve :
          ticketsToResolve[k].timestamp <= ticketMonthEnd(1)

\* the ticket-resolved events the resolve loop of this month has pushed
resolvedThisMonth ==
    IF tpc = "resolve" /\ tnext > 1
    THEN (Len(ticketEvents) - (tnext - 1) + 1) .. Len(ticketEvents)
    ELSE {}

raiseTimestamp(id) ==
    raisedTickets[CHOOSE k \in DOMAIN raisedTickets : raisedTickets[k].id = id].timestamp

\* C12: a ticket-resolved event pushed while month P is processed has a
\* timestamp between max(raise timestamp of its ticket, start of P) and the
\* end of P.
C12_ResolveWindow ==
    \A j \in resolvedThisMonth :
        LET e == ticketEvents[j]
            raisedAt == raiseTimestamp(e.ticketId)
        IN  /\ e.event = "ticket-resolved"
            /\ raisedAt <= e.timestamp
            /\ ticketMonthStart(tmonth) <= e.timestamp
            /\ e.timestamp <= ticketMonthEnd(tmonth)

\* a ticket of the first month is resolved in the second
C12_Witness ==
    /\ tmonth = 2
    /\ \E j \in resolvedThisMonth :
          raiseTimestamp(ticketEvents[j].ticketId) <= ticketMonthEnd(1)

countIn(S, n) == Cardinality({j \in S : j <= n})

\* C13: in the sorted list, every prefix holds at most as many
\* ticket-resolved events as ticket-raised events.
C13_PrefixBalance ==
    tpc = "written" =>
        \A n \in 0 .. Len(ticketEvents) :
            countIn(resolvedEvents, n) <= countIn(raisedEvents, n)

\* the sorted list holds a ticket resolved in the minute it was raised
C13_Witness ==
    /\ tpc = "written"
    /\ \E j \in resolvedEvents :
          ticketEvents[j].timestamp = raiseTimestamp(ticketEvents[j].ticketId)

\* the resolve loop of month k is over
resolveDone(k) ==
    \/ k < tmonth
    \/ k = tmonth /\ tpc = "resolve" /\ tnext > Len(ticketsToResolve)
    \/ k = tmonth /\ tpc = "written"

inTicketMonth(t, k) == ticketMonthStart(k) <= t /\ t <= ticketMonthEnd(k)

resolvedIn(k) ==
    Cardinality({j \in resolvedEvents : inTicketMonth(ticketEvents[j].timestamp, k)})

raisedUpTo(k) ==
    Cardinality({j \in raisedEvents : ticketEvents[j].timestamp <= ticketMonthEnd(k)})

resolvedBefore(k) ==
    Cardinality({j \in resolvedEvents : ticketEvents[j].timestamp < ticketMonthStart(k)})

\* C14: a month resolves min(ticketsResolved, open tickets) tickets, the
\* open tickets being those raised in this or an earlier month and not
\* resolved before this month.
C14_ResolvesMinOfTargetAndOpen ==
    \A k \in DOMAIN targets :
        resolveDone(k) =>
            resolvedIn(k) =
                Min(targets[k].ticketsResolved, raisedUpTo(k) - resolvedBefore(k))

\* the second month resolves a ticket left open by the first, and fewer
\* tickets than its target asks for
C14_Witness ==
    /\ resolveDone(2)
    /\ raisedUpTo(1) - resolvedIn(1) >= 1
    /\ resolvedIn(2) >= 1
    /\ resolvedIn(2) < targets[2].ticketsResolved
    /\ resolvedIn(2) = raisedUpTo(2) - resolvedBefore(2)


(***************************************************************************)
(* The uploaders: generate_new.ts (reads user-events.json and sends it),   *)
(* user.ts and part_003 (send the events they generated).                  *)
(***************************************************************************)
MaxDataset == 7      \* events in the file or generated
ReadLimit == 4       \* events.slice(0, 1000) of readUserEvents, scaled down
CHUNK_SIZE == 2      \* 100 in the code, scaled down
MaxKeyLen == 2       \* length of POSTHOG_API_KEY

Senders == {"generate_new.ts", "user.ts", "part_003"}

\* the characters of a key: a blank and a character that is not white space
KeyChars == {" ", "k"}
KeyStrings == UNION {[1 .. n -> KeyChars] : n \in 0 .. MaxKeyLen}
unset == [defined |-> FALSE, value |-> <<>>]
Environments == {unset} \cup {[defined |-> TRUE, value |-> v] : v \in KeyStrings}

RECURSIVE trimStart(_)
trimStart(str) ==
    IF str = <<>> THEN str
    ELSE IF Head(str) = " " THEN trimStart(Tail(str)) ELSE str

RECURSIVE trimEnd(_)
trimEnd(str) ==
    IF str = <<>> THEN str
    ELSE IF str[Len(str)] = " " THEN trimEnd(SubSeq(str, 1, Len(str) - 1)) ELSE str

\* String.prototype.trim
trim(str) == trimEnd(trimStart(str))

\* a slice that takes the element at end too
sliceThroughEnd(array, begin, end) == SubSeq(array, begin + 1, Min(end + 1, Len(array)))

\* Array.prototype.slice(begin, end) for 0 <= begin <= end
slice(array, begin, end) == SubSeq(array, begin + 1, Min(end, Len(array)))

RECURSIVE chunkFrom(_, _, _)
chunkFrom(array, chunkSize, begin) ==
    IF begin < Len(array)
    THEN <<slice(array, begin, begin + chunkSize)>>
             \o chunkFrom(array, chunkSize, begin + chunkSize)
    ELSE <<>>

chunkArray(array, chunkSize) == chunkFrom(array, chunkSize, 0)

\* the events of a file or of a generator run are told apart by their position
eventsOfLength(n) == [k \in 1 .. n |-> k]

SendInit ==
    /\ sender \in Senders
    /\ API_KEY \in (IF sender = "generate_new.ts" THEN Environments ELSE {unset})
    /\ spc = (IF sender = "generate_new.ts" THEN "check" ELSE "generate")
    /\ dataset = <<>>
    /\ chunks = <<>>
    /\ bi = 0
    /\ inFlight = {}
    /\ submitted = <<>>
    /\ succeeded = {}
    /\ failed = {}
    /\ exitCode = -1
    /\ announced = FALSE
    /\ IdleGen
    /\ IdleData
    /\ IdleUser
    /\ IdleTicket
    /\ IdleMore

\* a check that lets a key of blanks through
keyPresent(key) == ~ (~ key.defined \/ key.value = <<>>)

\* API_KEY == null || API_KEY.trim() === ""
keyMissing(key) == ~ key.defined \/ trim(key.value) = <<>>

CheckKey ==
    /\ spc = "check"
    /\ IF keyMissing(API_KEY)
       THEN spc' = "exited" /\ exitCode' = 1
       ELSE spc' = "read" /\ UNCHANGED exitCode
    /\ UNCHANGED <<sender, API_KEY, dataset, chunks, bi, inFlight, submitted,
                   succeeded, failed, announced>>
    /\ UNCHANGED <<genVars, dataVars, userVars, ticketVars, moreVars>>

\* readUserEvents and convertToPostHogFormat: the first events of the file
ReadUserEvents ==
    /\ spc = "read"
    /\ \E n \in 0 .. MaxDataset :
           dataset' = slice(eventsOfLength(n), 0, ReadLimit)
    /\ spc' = "upload"
    /\ UNCHANGED <<sender, API_KEY, chunks, bi, inFlight, submitted,
                   succeeded, failed, exitCode, announced>>
    /\ UNCHANGED <<genVars, dataVars, userVars, ticketVars, moreVars>>

\* the file is missing or is not JSON
ReadFails ==
    /\ spc = "read"
    /\ spc' = "exited"
    /\ exitCode' = 1
    /\ UNCHANGED <<sender, API_KEY, dataset, chunks, bi, inFlight, submitted,
                   succeeded, failed, announced>>
    /\ UNCHANGED <<genVars, dataVars, userVars, ticketVars, moreVars>>

\* user.ts and part_003 generate and save their events before they upload
GenerateDataset ==
    /\ spc = "generate"
    /\ \E n \in 0 .. MaxDataset : dataset' = eventsOfLength(n)
    /\ spc' = "upload"
    /\ UNCHANGED <<sender, API_KEY, chunks, bi, inFlight, submitted,
                   succeeded, failed, exitCode, announced>>
    /\ UNCHANGED <<genVars, dataVars, userVars, ticketVars, moreVars>>

StartUpload ==
    /\ spc = "upload"
    /\ chunks' = chunkArray(dataset, CHUNK_SIZE)
    /\ bi' = 0
    /\ spc' = "loop"
    /\ UNCHANGED <<sender, API_KEY, dataset, inFlight, submitted,
                   succeeded, failed, exitCode, announced>>
    /\ UNCHANGED <<genVars, dataVars, userVars, ticketVars, moreVars>>

\* axios.post of chunks[i]; the function waits for the answer
PostBatch ==
    /\ spc = "loop"
    /\ bi < Len(chunks)
    /\ inFlight' = inFlight \cup {bi + 1}
    /\ submitted' = Append(submitted, bi + 1)
    /\ spc' = "await"
    /\ UNCHANGED <<sender, API_KEY, dataset, chunks, bi, succeeded, failed,
                   exitCode, announced>>
    /\ UNCHANGED <<genVars, dataVars, userVars, ticketVars, moreVars>>

PostResolves ==
    /\ spc = "await"
    /\ inFlight' = inFlight \ {bi + 1}
    /\ succeeded' = succeeded \cup {bi + 1}
    /\ bi' = bi + 1
    /\ spc' = "loop"
    /\ UNCHANGED <<sender, API_KEY, dataset, chunks, submitted, failed,
                   exitCode, announced>>
    /\ UNCHANGED <<genVars, dataVars, userVars, ticketVars, moreVars>>

\* a rejected post handled by going on with the next batch
PostRejectsAndGoesOn ==
    /\ spc = "await"
    /\ inFlight' = inFlight \ {bi + 1}
    /\ failed' = failed \cup {bi + 1}
    /\ bi' = bi + 1
    /\ spc' = "loop"
    /\ UNCHANGED <<sender, API_KEY, dataset, chunks, submitted, succeeded,
                   exitCode, announced>>
    /\ UNCHANGED <<genVars, dataVars, userVars, ticketVars, moreVars>>

\* the catch block: process.exit(1)
PostRejects ==
    /\ spc = "await"
    /\ inFlight' = inFlight \ {bi + 1}
    /\ failed' = failed \cup {bi + 1}
    /\ exitCode' = 1
    /\ spc' = "exited"
    /\ UNCHANGED <<sender, API_KEY, dataset, chunks, bi, submitted, succeeded,
                   announced>>
    /\ UNCHANGED <<genVars, dataVars, userVars, ticketVars, moreVars>>

\* the loop is over: the success message is logged
EndUpload ==
    /\ spc = "loop"
    /\ ~ (bi < Len(chunks))
    /\ announced' = TRUE
    /\ spc' = "done"
    /\ UNCHANGED <<sender, API_KEY, dataset, chunks, bi, inFlight, submitted,
                   succeeded, failed, exitCode>>
    /\ UNCHANGED <<genVars, dataVars, userVars, ticketVars, moreVars>>

SendNext ==
    \/ CheckKey
    \/ ReadUserEvents
    \/ ReadFails
    \/ GenerateDataset
    \/ StartUpload
    \/ PostBatch
    \/ PostResolves
    \/ PostRejects
    \/ EndUpload

SendSpec == SendInit /\ [][SendNext]_vars

(***************************************************************************)
(* Properties of the uploaders                                             *)
(***************************************************************************)
\* C15: the batches are posted in index order, each at most once, with at
\* most one post unanswered; a batch is posted only when every batch before
\* it has succeeded; a failed batch is the last one posted and ends the run;
\* the success message is logged only when every batch has succeeded.
C15_SequentialFailFast ==
    /\ \A j \in DOMAIN submitted : submitted[j] = j
    /\ Cardinality(inFlight) <= 1
    /\ \A j \in DOMAIN submitted : \A k \in 1 .. j - 1 : k \in succeeded
    /\ \A j \in failed : j = Len(submitted) /\ spc = "exited" /\ exitCode = 1
    /\ announced => succeeded = DOMAIN chunks /\ failed = {}

\* the second batch failed after the first succeeded, with a third not sent
C15_Witness ==
    /\ Len(chunks) >= 3
    /\ succeeded = {1}
    /\ failed = {2}
    /\ submitted = <<1, 2>>

\* C16: with POSTHOG_API_KEY unset, empty or made of white space only, the
\* process exits with an error, having read no event and posted no batch.
C16_ConfigErrorIsFatal ==
    (sender = "generate_new.ts" /\ spc # "check"
        /\ (~ API_KEY.defined \/ \A k \in DOMAIN API_KEY.value : API_KEY.value[k] = " "))
    => /\ spc = "exited"
       /\ exitCode = 1
       /\ dataset = <<>>
       /\ chunks = <<>>
       /\ submitted = <<>>
       /\ ~ announced

\* a key of blanks has been refused
C16_Witness ==
    /\ API_KEY.defined
    /\ Len(API_KEY.value) = 2
    /\ API_KEY.value[1] = " "
    /\ API_KEY.value[2] = " "
    /\ spc = "exited"
    /\ exitCode = 1


(***************************************************************************)
(* Order of the steps of generateUsers, and its STEP 3                     *)
(***************************************************************************)
\* the pool is read by the filters of STEP 2 and STEP 3
readingPool == pc = "daily"

\* C17: while STEP 2 and STEP 3 of a period run, every sign-up of the period
\* is in allUsers (the STEP 1 loop has made all its passes and the pool holds
\* the sign-ups of every period so far), and no step taken from there
\* changes allUsers.
C17_SignupsBeforeReaders ==
    [][readingPool =>
          /\ i = PLAN[m].signups
          /\ Len(allUsers) = SumSignups(SubSeq(PLAN, 1, m))
          /\ cur = NoCur
          /\ allUsers' = allUsers]_vars

\* STEP 2 of the second period has pushed events for a user of that period
C17_Witness ==
    /\ pc = "daily"
    /\ m = 2
    /\ d > 1
    /\ PLAN[2].signups >= 1
    /\ \E k \in DOMAIN pushed : pushed[k].distinct_id \in usersOf(2)

\* users whose sign-up date is not after the end of period k
signedUpBy(k) == {u \in Ids(allUsers) : allUsers[u].signUpDate <= monthRange(k).end}

\* STEP 3 of a period whose distinct actives are below the MAU target
toppingUp ==
    /\ pc = "daily"
    /\ pc' = "report"
    /\ Cardinality(monthlyActives) < PLAN[m].mau

\* C19: a top-up adds only users signed up by the end of the period and not
\* yet active in it, pushes one event for each of them, and leaves
\* min(mau, users signed up by the end of the period) distinct actives.
C19_TopUp ==
    [][toppingUp =>
          /\ \A k \in DOMAIN pushed' :
                /\ pushed'[k].event = "user-active"
                /\ pushed'[k].distinct_id \in signedUpBy(m)
                /\ pushed'[k].distinct_id \notin monthlyActives
                /\ \A j \in DOMAIN pushed' :
                      j # k => pushed'[j].distinct_id # pushed'[k].distinct_id
          /\ monthlyActives' =
                monthlyActives \cup {pushed'[k].distinct_id : k \in DOMAIN pushed'}
          /\ Cardinality(monthlyActives') =
                Min(PLAN[m].mau, Cardinality(signedUpBy(m)))]_vars

\* a top-up has added a user to a period that had a daily active already
C19_Witness ==
    /\ pc = "report"
    /\ pushed # <<>>
    /\ Cardinality(monthlyActives) > Len(pushed)

\* C25: when STEP 2 of a period is over, its loop has visited the days
\* 1 .. DaysInMonth of the month, whatever the UTC offset of the host.
C25_EveryDayVisited ==
    pc = "report" => d - 1 = DaysInMonth

(***************************************************************************)
(* Phase 2 of the data generator                                           *)
(***************************************************************************)
\* the data_generated events of the month being generated
ofThisMonth ==
    {k \in DOMAIN allEvents :
        allEvents[k].event = "data_generated" /\ allEvents[k].month = dm}

\* Phase 2 starts: the step that leaves Phase 1
phaseTwoStarts == dpc = "phase1" /\ dpc' # "phase1"

\* the secondary event of k is a download that carries the size of k
downloadedAsIs(k) ==
    \E j \in secondaryOf(k) :
        /\ allEvents[j].event = "data_downloaded"
        /\ allEvents[j].file_size = allEvents[k].file_size

\* C21: when the sizes of the month's events add up to at least the target
\* and at most 1.2 times the target at the end of Phase 1, Phase 2 returns
\* at once and leaves every event as it is.
C21_BandLeftAlone ==
    [][(/\ phaseTwoStarts
        /\ AtMost(monthData.targetFileSizeMB, periodSum)
        /\ AtMost(periodSum, Times(monthData.targetFileSizeMB, <<6, 5>>)))
          => /\ allEvents' = allEvents
             /\ dpc' = "done"]_vars

\* a month of part_003 has returned with two events that add up to a sum in
\* the band, each with a download that carries the same size
C21_Witness ==
    /\ dpc = "done"
    /\ script = "part_003"
    /\ Cardinality(ofThisMonth) = 2
    /\ AtMost(monthData.targetFileSizeMB, periodSum)
    /\ AtMost(periodSum, Times(monthData.targetFileSizeMB, <<6, 5>>))
    /\ \A k \in ofThisMonth : downloadedAsIs(k)

\* the factor of the scale-down, from the events as they are
commonFactor == Over(Times(monthData.targetFileSizeMB, <<23, 20>>), periodSum)

\* C23: when the sizes of the month's events add up to more than 1.2 times
\* the target at the end of Phase 1, Phase 2 sets the size of every event of
\* the month to max(0.1, size * (target * 1.15 / sum)); when no event is
\* raised to 0.1 the new sizes add up to target * 1.15 and any two events
\* keep the ratio of their sizes.
C23_ScaleDown ==
    [][(/\ phaseTwoStarts
        /\ Less(Times(monthData.targetFileSizeMB, <<6, 5>>), periodSum))
          => /\ dpc' = "done"
             /\ \A k \in ofThisMonth :
                   allEvents'[k].file_size =
                       Greatest(<<1, 10>>, Times(allEvents[k].file_size, commonFactor))
             /\ (\A k \in ofThisMonth :
                    AtMost(<<1, 10>>, Times(allEvents[k].file_size, commonFactor)))
                  => /\ sumFileSize(allEvents', monthEvents(allEvents', dm))
                           = Times(monthData.targetFileSizeMB, <<23, 20>>)
                     /\ \A j, k \in ofThisMonth :
                           Times(allEvents'[j].file_size, allEvents[k].file_size)
                               = Times(allEvents'[k].file_size, allEvents[j].file_size)]_vars

\* a month of part_003 has returned with two events of different sizes that
\* add up to 1.15 times the target, one of them below the size its download
\* carries
C23_Witness ==
    /\ dpc = "done"
    /\ script = "part_003"
    /\ periodSum = Times(monthData.targetFileSizeMB, <<23, 20>>)
    /\ \E j, k \in ofThisMonth : allEvents[j].file_size # allEvents[k].file_size
    /\ \E k \in ofThisMonth : \E j \in secondaryOf(k) :
          /\ allEvents[j].event = "data_downloaded"
          /\ Less(allEvents[k].file_size, allEvents[j].file_size)

\* C24: the words of every data_generated event are those that
\* calculateWordsFromFileSize gives for its file size, when it is pushed and
\* after every assignment of Phase 2.
C24_WordsFollowFileSize ==
    \A k \in dataGenerated :
        allEvents[k].words = calculateWordsFromFileSize(allEvents[k].file_size)

\* Phase 2 has changed an event: its words differ from those of its download
\* and are those of its new size
C24_Witness ==
    /\ dpc = "done"
    /\ \E k \in ofThisMonth : \E j \in secondaryOf(k) :
          /\ allEvents[j].event = "data_downloaded"
          /\ allEvents[j].file_size # allEvents[k].file_size
          /\ allEvents[j].words # allEvents[k].words
          /\ allEvents[k].words = calculateWordsFromFileSize(allEvents[k].file_size)

\* C27: once generateDataEventsForMonth has returned, every data_downloaded
\* event carries the file size and the words of the data_generated event of
\* the same project.
C27_DownloadCarriesFinalSize ==
    dpc = "done" =>
        \A k \in dataGenerated : \A j \in secondaryOf(k) :
            allEvents[j].event = "data_downloaded" =>
                /\ allEvents[j].file_size = allEvents[k].file_size
                /\ allEvents[j].words = allEvents[k].words

(***************************************************************************)
(* The months of the data generator                                        *)
(***************************************************************************)
\* the data_generated events pushed by the call for month mo
createdIn(mo) ==
    {k \in DOMAIN allEvents :
        allEvents[k].event = "data_generated" /\ allEvents[k].period = mo}

selectedFor(mo) ==
    LET at == monthEvents(allEvents, mo) IN {at[j] : j \in DOMAIN at}

\* a step of Phase 2
inPhaseTwo == (dpc = "phase1" /\ dpc' # "phase1") \/ dpc = "boost"

\* C28: Phase 2 of a month selects the data_generated events that Phase 1 of
\* that month pushed and no other; it leaves every event pushed for another
\* month as it is, and no step changes the sum of a month that is over.
C28_PeriodIsolation ==
    [][/\ inPhaseTwo =>
             /\ selectedFor(dm) = createdIn(dm)
             /\ Len(allEvents') = Len(allEvents)
             /\ \A k \in DOMAIN allEvents :
                   allEvents[k].period # dm => allEvents'[k] = allEvents[k]
       /\ \A mo \in 1 .. dm - 1 :
             sumFileSize(allEvents', monthEvents(allEvents', mo))
                 = sumFileSize(allEvents, monthEvents(allEvents, mo))]_vars

\* Phase 2 of the second month has changed an event of that month while a
\* download of the first month is dated in the second
C28_Witness ==
    /\ dpc = "done"
    /\ dm = 2
    /\ \E j \in DOMAIN allEvents :
          /\ allEvents[j].event = "data_downloaded"
          /\ allEvents[j].period = 1
          /\ allEvents[j].month = 2
    /\ \E k \in createdIn(2) : \E j \in secondaryOf(k) :
          /\ allEvents[j].event = "data_downloaded"
          /\ allEvents[j].file_size # allEvents[k].file_size
    /\ createdIn(1) # {}

(***************************************************************************)
(* chunkArray, called on its own: every array of at most MaxArray items    *)
(* and every chunk size from 1 to MaxChunkSize.                            *)
(***************************************************************************)
MaxArray == 5
MaxChunkSize == 3

ArrayItems == {"a", "b"}
Arrays == UNION {[1 .. n -> ArrayItems] : n \in 0 .. MaxArray}

ChunkInit ==
    /\ cpc = "call"
    /\ carray \in Arrays
    /\ csize \in 1 .. MaxChunkSize
    /\ cchunks = <<>>
    /\ IdleGen
    /\ IdleData
    /\ IdleUser
    /\ IdleTicket
    /\ IdleSend
    /\ IdleEvents

CallChunkArray ==
    /\ cpc = "call"
    /\ cchunks' = chunkArray(carray, csize)
    /\ cpc' = "returned"
    /\ UNCHANGED <<carray, csize>>
    /\ UNCHANGED <<genVars, dataVars, userVars, ticketVars, sendVars, eventVars>>

ChunkNext == CallChunkArray

ChunkSpec == ChunkInit /\ [][ChunkNext]_vars

RECURSIVE concatenated(_)
concatenated(seqs) ==
    IF seqs = <<>> THEN <<>> ELSE Head(seqs) \o concatenated(Tail(seqs))

\* C26: the chunks returned by chunkArray, put one after the other, are the
\* array passed; no chunk is empty or longer than chunkSize, and every chunk
\* but the last has chunkSize items.
C26_ChunksPartition ==
    cpc = "returned" =>
        /\ concatenated(cchunks) = carray
        /\ \A k \in DOMAIN cchunks :
              /\ Len(cchunks[k]) >= 1
              /\ Len(cchunks[k]) <= csize
              /\ k < Len(cchunks) => Len(cchunks[k]) = csize

\* an array of five items that are not all the same, cut into chunks of
\* two: the last chunk is short
C26_Witness ==
    /\ cpc = "returned"
    /\ Len(carray) = 5
    /\ csize = 2
    /\ Len(cchunks) = 3
    /\ Len(cchunks[3]) = 1
    /\ \E j, k \in DOMAIN carray : carray[j] # carray[k]

(***************************************************************************)
(* generateAllUserEvents of user.ts on a small plan: for every month       *)
(* generateUsersForMonth, then generateLoginEventsForMonth, and at the end *)
(* the sort of allEvents.  The clock of this script ticks UserTicks times  *)
(* a month.                                                                *)
(***************************************************************************)
UserMonths == 2      \* entries of the plan
UserTicks == 2       \* clock ticks of a month
MaxPerRegion == 1    \* users of a region in a month
MaxSignups == 2      \* users of a month
MaxLogins == 2       \* logins target of a month

\* two of the eleven countries generateCountryForRegion draws for "Europe"
EuropeanCountries == {"United Kingdom", "Germany"}

\* generateCountryForRegion
countriesOf(region) ==
    CASE region = "India" -> {"India"}
      [] region = "USA" -> {"United States"}
      [] region = "UAE" -> {"United Arab Emirates"}
      [] region = "Europe" -> EuropeanCountries
      [] OTHER -> {"United States"}

Distributions ==
    {dist \in [India : 0 .. MaxPerRegion, USA : 0 .. MaxPerRegion,
               Europe : 0 .. MaxPerRegion, UAE : 0 .. MaxPerRegion] :
        sumOfDistribution(dist) <= MaxSignups}

\* months without users and months with a user of India and one of Europe,
\* with no login or MaxLogins logins
LoginPlanEntries ==
    [countryDistribution : {dist \in Distributions : dist.USA = 0 /\ dist.UAE = 0
                                                     /\ dist.India = dist.Europe},
     logins : {0, MaxLogins}]

\* every distribution, with one login
CountryPlanEntries == [countryDistribution : Distributions, logins : {1}]

userMonthStart(k) == (k - 1) * UserTicks
userMonthEnd(k) == k * UserTicks - 1

\* randomDateInRange(monthStart, monthEnd)
randomDateInRange(start, end) == start .. end

\* count calls of generateCountryForRegion(region)
countriesFor(region, count) == [1 .. count -> countriesOf(region)]

\* countryArray: Object.entries(countryDistribution) in the order of the keys
countryArrays(dist) ==
    {a \o b \o c \o e :
        a \in countriesFor("India", dist.India), b \in countriesFor("USA", dist.USA),
        c \in countriesFor("Europe", dist.Europe), e \in countriesFor("UAE", dist.UAE)}

\* an assignment in place of the swap: countryArray[i] = countryArray[j]
overwritten(array, a, b) == [array EXCEPT ![a + 1] = array[b + 1]]

\* [countryArray[i], countryArray[j]] = [countryArray[j], countryArray[i]]
swapped(array, a, b) ==
    [array EXCEPT ![a + 1] = array[b + 1], ![b + 1] = array[a + 1]]

\* for (let i = length - 1; i > 0; i--) with j = Math.floor(Math.random() * (i + 1))
RECURSIVE shuffledFrom(_, _)
shuffledFrom(array, last) ==
    IF last > 0
    THEN UNION {shuffledFrom(swapped(array, last, j), last - 1) : j \in 0 .. last}
    ELSE {array}

shuffles(array) == shuffledFrom(array, Len(array) - 1)

\* countryArray[i] || countryArray[0], i 0-based
countryAt(array, at) == IF at + 1 \in DOMAIN array THEN array[at + 1] ELSE array[1]

EventsInitOf(entries) ==
    /\ uePlan \in [1 .. UserMonths -> entries]
    /\ uePc = "month"
    /\ ueMonth = 1
    /\ ueCountries = <<>>
    /\ ueLoop = 0
    /\ ueUsers = <<>>
    /\ ueLogins = <<>>
    /\ ueEvents = <<>>
    /\ IdleGen
    /\ IdleData
    /\ IdleUser
    /\ IdleTicket
    /\ IdleSend
    /\ IdleChunk

EventsInit == EventsInitOf(LoginPlanEntries)

\* generateUsersForMonth up to the user loop
BuildCountryArray ==
    /\ uePc = "month"
    /\ \E built \in countryArrays(uePlan[ueMonth].countryDistribution) :
          ueCountries' \in shuffles(built)
    /\ ueLoop' = 0
    /\ uePc' = "users"
    /\ UNCHANGED <<uePlan, ueMonth, ueUsers, ueLogins, ueEvents>>
    /\ UNCHANGED <<genVars, dataVars, userVars, ticketVars, sendVars, chunkVars>>

\* one pass of the user loop
UserSignsUp ==
    /\ uePc = "users"
    /\ ueLoop < sumOfDistribution(uePlan[ueMonth].countryDistribution)
    /\ \E signUpDate \in randomDateInRange(userMonthStart(ueMonth), userMonthEnd(ueMonth)) :
          /\ ueUsers' = Append(ueUsers,
                 [signUpDate |-> signUpDate, signUpMonth |-> ueMonth,
                  country |-> countryAt(ueCountries, ueLoop)])
          /\ ueEvents' = Append(ueEvents,
                 [event |-> "user-signed-up", userId |-> Len(ueUsers) + 1,
                  timestamp |-> signUpDate])
    /\ ueLoop' = ueLoop + 1
    /\ UNCHANGED <<uePlan, uePc, ueMonth, ueCountries, ueLogins>>
    /\ UNCHANGED <<genVars, dataVars, userVars, ticketVars, sendVars, chunkVars>>

\* allUsers.filter((user) => user.signUpDate <= monthEnd)
eligibleUsers(k) ==
    {u \in DOMAIN ueUsers : ueUsers[u].signUpDate <= userMonthEnd(k)}

\* the sort that closes generateAllUserEvents, left out
asPushed(evs) == evs

\* allEvents.sort by timestamp
allEventsSort(evs) == sortByTimestamp(evs)

\* generateLoginEventsForMonth returns with evs in allEvents: forEach goes
\* on to the next month, or generateAllUserEvents sorts allEvents
monthReturns(evs) ==
    IF ueMonth < Len(uePlan)
    THEN /\ ueMonth' = ueMonth + 1
         /\ uePc' = "month"
         /\ ueEvents' = evs
    ELSE /\ uePc' = "sorted"
         /\ ueEvents' = allEventsSort(evs)
         /\ UNCHANGED ueMonth

\* the user loop is over; entry of generateLoginEventsForMonth.  countryArray
\* and loginEvents are locals of the two functions: they are gone when the
\* function returns
BeginLogins ==
    /\ uePc = "users"
    /\ ~ (ueLoop < sumOfDistribution(uePlan[ueMonth].countryDistribution))
    /\ IF eligibleUsers(ueMonth) = {}
       THEN monthReturns(ueEvents)
       ELSE /\ uePc' = "logins"
            /\ UNCHANGED <<ueMonth, ueEvents>>
    /\ ueLoop' = 0
    /\ ueLogins' = <<>>
    /\ ueCountries' = <<>>
    /\ UNCHANGED <<uePlan, ueUsers>>
    /\ UNCHANGED <<genVars, dataVars, userVars, ticketVars, sendVars, chunkVars>>

\* new Date(year, month, date of randomDay, hour, minute): a minute of the
\* calendar day of randomDay, which may lie before or after randomDay
minutesOfDay(randomDay) == (randomDay - 1) .. (randomDay + 1)

\* a test that lets every timestamp through
withoutWindow(loginTimestamp, loginStart, monthEnd) == TRUE

\* loginTimestamp >= loginStart && loginTimestamp <= monthEnd
withinWindow(loginTimestamp, loginStart, monthEnd) ==
    loginTimestamp >= loginStart /\ loginTimestamp <= monthEnd

\* Math.max(selectedUser.signUpDate.getTime(), monthStart.getTime())
loginStartOf(u, k) ==
    IF ueUsers[u].signUpDate >= userMonthStart(k)
    THEN ueUsers[u].signUpDate ELSE userMonthStart(k)

\* one pass of the login loop
UserLogsIn ==
    /\ uePc = "logins"
    /\ ueLoop < uePlan[ueMonth].logins
    /\ \E selectedUser \in eligibleUsers(ueMonth) :
          LET loginStart == loginStartOf(selectedUser, ueMonth)
              monthEnd == userMonthEnd(ueMonth)
          IN  \E randomDay \in randomDateInRange(loginStart, monthEnd) :
              \E loginTimestamp \in minutesOfDay(randomDay) :
                 IF withinWindow(loginTimestamp, loginStart, monthEnd)
                 THEN ueLogins' = Append(ueLogins,
                          [event |-> "user-logged-in", userId |-> selectedUser,
                           timestamp |-> loginTimestamp])
                 ELSE UNCHANGED ueLogins
    /\ ueLoop' = ueLoop + 1
    /\ UNCHANGED <<uePlan, uePc, ueMonth, ueCountries, ueUsers, ueEvents>>
    /\ UNCHANGED <<genVars, dataVars, userVars, ticketVars, sendVars, chunkVars>>

\* loginEvents.sort(...); allEvents.push(...loginEvents)
PushLogins ==
    /\ uePc = "logins"
    /\ ~ (ueLoop < uePlan[ueMonth].logins)
    /\ monthReturns(ueEvents \o sortByTimestamp(ueLogins))
    /\ ueLoop' = 0
    /\ ueLogins' = <<>>
    /\ UNCHANGED <<uePlan, ueCountries, ueUsers>>
    /\ UNCHANGED <<genVars, dataVars, userVars, ticketVars, sendVars, chunkVars>>

EventsNext ==
    \/ BuildCountryArray
    \/ UserSignsUp
    \/ BeginLogins
    \/ UserLogsIn
    \/ PushLogins

EventsSpec == EventsInit /\ [][EventsNext]_vars

\* the same script over every country distribution
CountryInit == EventsInitOf(CountryPlanEntries)

CountrySpec == CountryInit /\ [][EventsNext]_vars

(***************************************************************************)
(* The logins of a month.                                                  *)
(***************************************************************************)
isLogin(e) == e.event = "user-logged-in"
isSignup(e) == e.event = "user-signed-up"

\* the login events of allEvents whose timestamp lies in month k
loginsOfMonth(k) ==
    {n \in DOMAIN ueEvents :
        /\ isLogin(ueEvents[n])
        /\ ueEvents[n].timestamp >= userMonthStart(k)
        /\ ueEvents[n].timestamp <= userMonthEnd(k)}

\* C22: every login event generateLoginEventsForMonth emits for a month has
\* max(signUpDate of its user, monthStart) <= timestamp <= monthEnd; so no
\* login precedes the signup of its user, and a month has at most its
\* logins target of login events.
C22_LoginWindow ==
    /\ \A n \in DOMAIN ueLogins :
          /\ ueLogins[n].timestamp >= ueUsers[ueLogins[n].userId].signUpDate
          /\ ueLogins[n].timestamp >= userMonthStart(ueMonth)
          /\ ueLogins[n].timestamp <= userMonthEnd(ueMonth)
    /\ Len(ueLogins) <= uePlan[ueMonth].logins
    /\ \A n \in DOMAIN ueEvents :
          isLogin(ueEvents[n]) =>
              ueEvents[n].timestamp >= ueUsers[ueEvents[n].userId].signUpDate
    /\ \A k \in DOMAIN uePlan : Cardinality(loginsOfMonth(k)) <= uePlan[k].logins

\* a user of the first month logs in at the start of the second month, in a
\* loop of which one pass was dropped by the window test
C22_Witness ==
    /\ uePc = "logins"
    /\ ueMonth = 2
    /\ ueLoop = 2
    /\ Len(ueLogins) = 1
    /\ ueLogins[1].timestamp = userMonthStart(2)
    /\ ueUsers[ueLogins[1].userId].signUpMonth = 1

(***************************************************************************)
(* The order of allEvents after generateAllUserEvents.                     *)
(***************************************************************************)
\* C29: after generateAllUserEvents allEvents is in non-decreasing timestamp
\* order, and the user-signed-up event of a user comes before every
\* user-logged-in event of that user, also when their timestamps are equal.
C29_SignupBeforeLogins ==
    uePc = "sorted" =>
        /\ \A n \in DOMAIN ueEvents :
              n > 1 => ueEvents[n - 1].timestamp <= ueEvents[n].timestamp
        /\ \A n \in DOMAIN ueEvents :
              isLogin(ueEvents[n]) =>
                  /\ \E sg \in 1 .. n - 1 :
                        /\ isSignup(ueEvents[sg])
                        /\ ueEvents[sg].userId = ueEvents[n].userId
                  /\ \A sg \in DOMAIN ueEvents :
                        (isSignup(ueEvents[sg]) /\ ueEvents[sg].userId = ueEvents[n].userId)
                            => sg < n

\* a login at the very timestamp of the signup of its user, and a user who
\* signed up at that timestamp after the first user did
C29_Witness ==
    /\ uePc = "sorted"
    /\ \E sg, n \in DOMAIN ueEvents :
          /\ isSignup(ueEvents[sg])
          /\ isLogin(ueEvents[n])
          /\ ueEvents[sg].userId = ueEvents[n].userId
          /\ ueEvents[sg].timestamp = ueEvents[n].timestamp
          /\ \E o \in DOMAIN ueEvents :
                /\ isSignup(ueEvents[o])
                /\ ueEvents[o].userId # ueEvents[sg].userId
                /\ ueEvents[o].timestamp = ueEvents[sg].timestamp

(***************************************************************************)
(* The countries of the users of a month.                                  *)
(***************************************************************************)
PlannedRegions == {"India", "USA", "Europe", "UAE"}

\* the user loop of month k has run to its end
usersDone(k) == k < ueMonth \/ (k = ueMonth /\ uePc \in {"logins", "sorted"})

usersOfRegion(k, region) ==
    {u \in DOMAIN ueUsers :
        ueUsers[u].signUpMonth = k /\ ueUsers[u].country \in countriesOf(region)}

\* C30: for every month the users created per region are as many as the
\* countryDistribution of the month says, the European countries together
\* making up the Europe count: the shuffle of countryArray is a permutation.
C30_CountriesAsPlanned ==
    \A k \in DOMAIN uePlan :
        usersDone(k) =>
            \A region \in PlannedRegions :
                Cardinality(usersOfRegion(k, region))
                    = uePlan[k].countryDistribution[region]

\* a month of one user of Europe and one of India, the European one first:
\* the shuffle changed the order of countryArray
C30_Witness ==
    /\ usersDone(1)
    /\ uePlan[1].countryDistribution.India = 1
    /\ uePlan[1].countryDistribution.Europe = 1
    /\ Len(ueUsers) >= 2
    /\ ueUsers[1].country = "Germany"
    /\ ueUsers[2].country = "India"

====
